---- MODULE Spec2Model ----
(***************************************************************************)
(* Task manager: the operation layer (src/src/tools.ts) over the snapshot  *)
(* file backend (src/src/storage.ts), called through the tool dispatcher   *)
(* of src/src/index.ts; the indexed-table backend (src/src/storage-db.ts)  *)
(* and the storage router the resource handler of index.ts reads through.  *)
(*                                                                         *)
(* Text is a sequence of one-character strings.  An optional field         *)
(* (TypeScript `x?: T`) is <<>> when undefined and <<v>> when it holds v.  *)
(* Timestamps are instants of an integer clock.                            *)
(***************************************************************************)
EXTENDS Integers, Sequences, FiniteSets, TLC

VARIABLES
    doc,      \* the snapshot document tasks.json: <<>> while absent, else <<[tasks, lastUpdated]>>
    now,      \* the last instant the system clock returned
    issued,   \* ids uuidv4() has returned so far
    calls,    \* number of tool calls handled
    result,   \* what the last tool call returned
    unreadable,    \* reading tasks.json fails (the file is there but cannot be read or parsed)
    STORAGE_TYPE,  \* the environment variable the storage router reads at startup (optional text)
    table,    \* the rows of the tasks table of tasks.db, in rowid order
    inflight  \* tool calls that have loaded the collection and not yet saved it

vars == <<doc, now, issued, calls, result, unreadable, STORAGE_TYPE, table, inflight>>

\* ---------------------------------------------------------------- bounds
MaxTasks == 3
MaxClock == 1
MaxCalls == 3
IdLen == 9

\* ------------------------------------------------------- basic helpers
Undefined == <<>>
Some(v) == <<v>>
IsDefined(o) == o # <<>>
Range(s) == {s[i] : i \in 1..Len(s)}
Min(a, b) == IF a <= b THEN a ELSE b

\* Array.prototype.filter is SelectSeq.

\* String.prototype.startsWith
startsWith(s, p) == Len(p) <= Len(s) /\ SubSeq(s, 1, Len(p)) = p

\* variant: resolves to the last task whose id starts with the prefix
findLastIndex(tasks, taskId) ==
    IF \E i \in 1..Len(tasks) : startsWith(tasks[i].id, taskId)
    THEN CHOOSE i \in 1..Len(tasks) :
            /\ startsWith(tasks[i].id, taskId)
            /\ \A j \in (i + 1)..Len(tasks) : ~startsWith(tasks[j].id, taskId)
    ELSE 0

\* variant: falls back to the first task when nothing matches
findIndexOrFirst(tasks, taskId) ==
    IF \E i \in 1..Len(tasks) : startsWith(tasks[i].id, taskId)
    THEN CHOOSE i \in 1..Len(tasks) :
            /\ startsWith(tasks[i].id, taskId)
            /\ \A j \in 1..(i - 1) : ~startsWith(tasks[j].id, taskId)
    ELSE Min(1, Len(tasks))

\* Array.prototype.findIndex over task ids; 0 stands for -1 (indices are 1-based here)
findIndex(tasks, taskId) ==
    IF \E i \in 1..Len(tasks) : startsWith(tasks[i].id, taskId)
    THEN CHOOSE i \in 1..Len(tasks) :
            /\ startsWith(tasks[i].id, taskId)
            /\ \A j \in 1..(i - 1) : ~startsWith(tasks[j].id, taskId)
    ELSE 0

\* Array.prototype.splice(i, 1)
splice(s, i) == SubSeq(s, 1, i - 1) \o SubSeq(s, i + 1, Len(s))

\* ------------------------------------------------------------ the clock
\* new Date(): the clock never runs backwards; it may or may not have advanced
Date(t) == {u \in {t, t + 1} : u <= MaxClock}

\* ------------------------------------------------------------ ids
\* uuidv4() draws from this space; ids have one length, the first two share
\* their leading MinTaskIdLen characters
MkId(h, t) == [i \in 1..IdLen |-> IF i < IdLen THEN h ELSE t]
IdSpace == {MkId(1, 1), MkId(1, 2), MkId(2, 1)}

\* variant: an id generator that may repeat itself
uuidv4Repeating == IdSpace

uuidv4 == IdSpace \ issued

\* ------------------------------------------------------------ schemas
MinTaskIdLen == 8
Priorities == {"low", "medium", "high"}
Statuses == {"pending", "in_progress", "completed"}

Digits == {"0", "1", "2", "3", "4", "5", "6", "7", "8", "9"}
\* /^\d{4}-\d{2}-\d{2}$/
DateRegex(s) ==
    /\ Len(s) = 10
    /\ \A i \in 1..10 : IF i \in {5, 8} THEN s[i] = "-" ELSE s[i] \in Digits

Date1 == <<"2", "0", "2", "5", "-", "0", "1", "-", "0", "1">>
BadDate == <<"2", "0", "2", "5", "/", "1">>

\* z.object(...).parse: the set of violated constraints and the parsed value
CreateTaskSchema(args) ==
    LET errs ==
            (IF ~IsDefined(args.title) THEN {"Required"} ELSE {})
            \cup (IF IsDefined(args.title) /\ Len(args.title[1]) < 1
                  THEN {"Title is required"} ELSE {})
            \cup (IF IsDefined(args.priority) /\ args.priority[1] \notin Priorities
                  THEN {"Invalid enum value"} ELSE {})
            \cup (IF IsDefined(args.dueDate) /\ ~DateRegex(args.dueDate[1])
                  THEN {"Date must be YYYY-MM-DD"} ELSE {})
    IN [errors |-> errs,
        value |-> [title |-> IF IsDefined(args.title) THEN args.title[1] ELSE <<>>,
                   description |-> args.description,
                   priority |-> IF IsDefined(args.priority) THEN args.priority[1] ELSE "medium",
                   category |-> args.category,
                   dueDate |-> args.dueDate]]

UpdateTaskSchema(args) ==
    LET errs ==
            (IF Len(args.taskId) < MinTaskIdLen
             THEN {"Task ID must be at least 8 characters"} ELSE {})
            \cup (IF IsDefined(args.priority) /\ args.priority[1] \notin Priorities
                  THEN {"Invalid enum value"} ELSE {})
            \cup (IF IsDefined(args.dueDate) /\ ~DateRegex(args.dueDate[1])
                  THEN {"Date must be YYYY-MM-DD"} ELSE {})
            \cup (IF IsDefined(args.status) /\ args.status[1] \notin Statuses
                  THEN {"Invalid enum value"} ELSE {})
    IN [errors |-> errs, value |-> args]

TaskIdSchema(args) ==
    [errors |-> IF Len(args.taskId) < MinTaskIdLen
                THEN {"Task ID must be at least 8 characters"} ELSE {},
     value |-> args]

ListTasksSchema(args) ==
    [errors |-> (IF IsDefined(args.status) /\ args.status[1] \notin Statuses \cup {"all"}
                 THEN {"Invalid enum value"} ELSE {})
                \cup (IF IsDefined(args.priority) /\ args.priority[1] \notin Priorities \cup {"all"}
                      THEN {"Invalid enum value"} ELSE {}),
     value |-> [status |-> IF IsDefined(args.status) THEN args.status[1] ELSE "all",
                priority |-> IF IsDefined(args.priority) THEN args.priority[1] ELSE "all",
                category |-> args.category]]

SearchSchema(args) ==
    [errors |-> IF Len(args.query) < 1 THEN {"Search query is required"} ELSE {},
     value |-> args]

\* ------------------------------------------------------------ JSON
\* JSON.stringify of the task array: for each task its properties that have a
\* value, in property order
TaskKeys == <<"id", "title", "description", "priority", "category", "dueDate",
              "status", "createdAt", "completedAt">>
OptionalKeys == {"description", "category", "dueDate", "completedAt"}

stringifyTask(task) ==
    LET present(k) == k \notin OptionalKeys \/ IsDefined(task[k])
        keys == SelectSeq(TaskKeys, present)
    IN [i \in 1..Len(keys) |->
          <<keys[i], IF keys[i] \in OptionalKeys THEN task[keys[i]][1] ELSE task[keys[i]]>>]

stringify(tasks) == [i \in 1..Len(tasks) |-> stringifyTask(tasks[i])]

\* JSON.parse: a property the text does not carry is undefined on the object
parseTask(pairs) ==
    LET get(k) ==
            IF \E i \in 1..Len(pairs) : pairs[i][1] = k
            THEN LET v == pairs[CHOOSE i \in 1..Len(pairs) : pairs[i][1] = k][2]
                 IN IF k \in OptionalKeys THEN Some(v) ELSE v
            ELSE Undefined
    IN [id |-> get("id"), title |-> get("title"), description |-> get("description"),
        priority |-> get("priority"), category |-> get("category"),
        dueDate |-> get("dueDate"), status |-> get("status"),
        createdAt |-> get("createdAt"), completedAt |-> get("completedAt")]

parse(text) == [i \in 1..Len(text) |-> parseTask(text[i])]

\* ------------------------------------------------------------ storage.ts
\* variant: the read is not guarded, a failure escapes to the caller
loadTasksRethrows(d) == d # <<>> /\ unreadable

\* loadTasks, the try/catch: a failed read is logged and nothing escapes to the caller
loadTasksThrows(d) == FALSE

\* loadTasks: the document when it exists and reads, else an empty collection stamped now
loadTasks(d, t) ==
    IF d # <<>> /\ ~unreadable THEN d[1] ELSE [tasks |-> <<>>, lastUpdated |-> t]

\* variant: the document is written without a new lastUpdated stamp
saveTasksKeepsStamp(storage, t) ==
    <<[tasks |-> parse(stringify(storage.tasks)), lastUpdated |-> storage.lastUpdated]>>

\* saveTasks: stamp lastUpdated, overwrite the document; the document is kept
\* here as fs.readJson parses what fs.writeJson wrote
saveTasks(storage, t) ==
    <<[tasks |-> parse(stringify(storage.tasks)), lastUpdated |-> t]>>

\* JavaScript truthiness of an optional string: defined and not empty
Truthy(o) == IsDefined(o) /\ o[1] # <<>>

\* formatTask: the lines rendered for a task (optional lines only when truthy)
formatTask(task) ==
    [header |-> <<SubSeq(task.id, 1, Min(8, Len(task.id))), task.title>>,
     priority |-> task.priority,
     description |-> IF Truthy(task.description) THEN task.description ELSE Undefined,
     category |-> IF Truthy(task.category) THEN task.category ELSE Undefined,
     due |-> IF Truthy(task.dueDate) THEN task.dueDate ELSE Undefined,
     status |-> task.status,
     created |-> task.createdAt,
     completed |-> task.completedAt]

\* ------------------------------------------------------------ results
Text(kind, payload) == [kind |-> kind, payload |-> payload]

\* index.ts: a ZodError becomes a validation-error text result
ValidationError(errs) == Text("validation_error", errs)

NotFound(taskId) == Text("not_found", taskId)

\* ------------------------------------------------------------ tools.ts
\* createTask, the task literal
NewTask(validated, id, t) ==
    [id |-> id,
     title |-> validated.title,
     description |-> validated.description,
     priority |-> validated.priority,
     category |-> validated.category,
     dueDate |-> validated.dueDate,
     status |-> "pending",
     createdAt |-> t,
     completedAt |-> Undefined]

\* Array.prototype.push
push(tasks, task) == Append(tasks, task)

\* variant: the description is assigned whether or not the request carries it
ApplyFieldsAssignsDescription(task, validated) ==
    [task EXCEPT
        !.title = IF IsDefined(validated.title) THEN validated.title[1] ELSE @,
        !.description = validated.description,
        !.priority = IF IsDefined(validated.priority) THEN validated.priority[1] ELSE @,
        !.category = IF IsDefined(validated.category) THEN validated.category ELSE @,
        !.dueDate = IF IsDefined(validated.dueDate) THEN validated.dueDate ELSE @]

\* updateTask, "Update fields if provided": the five plain fields
ApplyFields(task, validated) ==
    [task EXCEPT
        !.title = IF IsDefined(validated.title) THEN validated.title[1] ELSE @,
        !.description = IF IsDefined(validated.description) THEN validated.description ELSE @,
        !.priority = IF IsDefined(validated.priority) THEN validated.priority[1] ELSE @,
        !.category = IF IsDefined(validated.category) THEN validated.category ELSE @,
        !.dueDate = IF IsDefined(validated.dueDate) THEN validated.dueDate ELSE @]

\* variant: the status branch never clears completedAt
ApplyStatusNeverClears(task, validated, t) ==
    IF IsDefined(validated.status)
    THEN [task EXCEPT
            !.status = validated.status[1],
            !.completedAt =
                IF validated.status[1] = "completed" /\ ~IsDefined(@) THEN Some(t) ELSE @]
    ELSE task

\* variant: the status branch stamps completedAt whenever the status is set to completed
ApplyStatusRestamps(task, validated, t) ==
    IF IsDefined(validated.status)
    THEN [task EXCEPT
            !.status = validated.status[1],
            !.completedAt = IF validated.status[1] = "completed" THEN Some(t) ELSE Undefined]
    ELSE task

\* updateTask, the status branch: stamp completedAt when completing a task that has
\* none, clear it when the status is set to anything else
ApplyStatus(task, validated, t) ==
    IF IsDefined(validated.status)
    THEN [task EXCEPT
            !.status = validated.status[1],
            !.completedAt =
                IF validated.status[1] = "completed" /\ ~IsDefined(@)
                THEN Some(t)
                ELSE IF validated.status[1] # "completed" THEN Undefined ELSE @]
    ELSE task

\* variant: completing keeps a completion stamp that is already there
MarkCompletedKeepsStamp(task, t) ==
    [task EXCEPT !.status = "completed",
                 !.completedAt = IF IsDefined(@) THEN @ ELSE Some(t)]

\* variant: the completion stamp is the start of the epoch, not the current time
MarkCompletedStampsEpoch(task, t) ==
    [task EXCEPT !.status = "completed", !.completedAt = Some(0)]

\* completeTask, "Update status"
MarkCompleted(task, t) ==
    [task EXCEPT !.status = "completed", !.completedAt = Some(t)]

\* variant: the filter keeps pending tasks only
OnlyPending(t) == t.status = "pending"

\* clearCompleted, "Filter out completed tasks"
NotCompleted(t) == t.status # "completed"

\* clearCompleted, the message
ClearMessage(removedCount, remaining) ==
    IF removedCount > 0
    THEN Text("cleared", [removed |-> removedCount, remaining |-> remaining])
    ELSE Text("nothing_to_clear", <<>>)

\* ------------------------------------------------------------ strings
Upper == <<"A", "B", "C", "D", "E", "F", "G", "H", "I", "J", "K", "L", "M",
           "N", "O", "P", "Q", "R", "S", "T", "U", "V", "W", "X", "Y", "Z">>
Lower == <<"a", "b", "c", "d", "e", "f", "g", "h", "i", "j", "k", "l", "m",
           "n", "o", "p", "q", "r", "s", "t", "u", "v", "w", "x", "y", "z">>

LowerChar(c) ==
    IF \E i \in 1..Len(Upper) : Upper[i] = c
    THEN Lower[CHOOSE i \in 1..Len(Upper) : Upper[i] = c]
    ELSE c

\* String.prototype.toLowerCase
toLowerCase(s) == [i \in 1..Len(s) |-> LowerChar(s[i])]

\* String.prototype.includes
includes(s, q) ==
    \E k \in 0..(Len(s) - Len(q)) : SubSeq(s, k + 1, k + Len(q)) = q

\* collation rank of the characters a due date is made of: "-" sorts before the digits
CharRank(c) ==
    CASE c = "-" -> 0
      [] c = "0" -> 1 [] c = "1" -> 2 [] c = "2" -> 3 [] c = "3" -> 4 [] c = "4" -> 5
      [] c = "5" -> 6 [] c = "6" -> 7 [] c = "7" -> 8 [] c = "8" -> 9 [] c = "9" -> 10
      [] OTHER -> 11

RECURSIVE localeCompare(_, _)
\* String.prototype.localeCompare on date text: negative, zero or positive
localeCompare(a, b) ==
    IF a = <<>> /\ b = <<>> THEN 0
    ELSE IF a = <<>> THEN -1
    ELSE IF b = <<>> THEN 1
    ELSE IF CharRank(Head(a)) < CharRank(Head(b)) THEN -1
    ELSE IF CharRank(Head(a)) > CharRank(Head(b)) THEN 1
    ELSE localeCompare(Tail(a), Tail(b))

\* the `<` of two date strings (code-unit order)
StrLess(a, b) == localeCompare(a, b) < 0

\* ------------------------------------------------------------ listTasks
priorityOrder(p) == CASE p = "high" -> 0 [] p = "medium" -> 1 [] p = "low" -> 2

NoDueDate == <<"9", "9", "9", "9", "-", "9", "9", "-", "9", "9">>

\* the comparator handed to tasks.sort
compareTasks(a, b) ==
    LET priorityDiff == priorityOrder(a.priority) - priorityOrder(b.priority)
        aDate == IF Truthy(a.dueDate) THEN a.dueDate[1] ELSE NoDueDate
        bDate == IF Truthy(b.dueDate) THEN b.dueDate[1] ELSE NoDueDate
    IN IF priorityDiff # 0 THEN priorityDiff ELSE localeCompare(aDate, bDate)

RECURSIVE InsertSorted(_, _)
InsertSorted(x, s) ==
    IF s = <<>> THEN <<x>>
    ELSE IF compareTasks(x, Head(s)) < 0 THEN <<x>> \o s
    ELSE <<Head(s)>> \o InsertSorted(x, Tail(s))

RECURSIVE sort(_)
\* Array.prototype.sort with compareTasks (stable)
sort(s) ==
    IF s = <<>> THEN <<>>
    ELSE InsertSorted(s[Len(s)], sort(SubSeq(s, 1, Len(s) - 1)))

\* variant: the status filter is skipped
ApplyFiltersNoStatus(tasks, validated) ==
    LET byPriority(t) == t.priority = validated.priority
        byCategory(t) ==
            /\ IsDefined(t.category)
            /\ toLowerCase(t.category[1]) = toLowerCase(validated.category[1])
        s2 == IF validated.priority # "all" THEN SelectSeq(tasks, byPriority) ELSE tasks
    IN IF Truthy(validated.category) THEN SelectSeq(s2, byCategory) ELSE s2

\* listTasks, "Apply filters"
ApplyFilters(tasks, validated) ==
    LET byStatus(t) == t.status = validated.status
        byPriority(t) == t.priority = validated.priority
        byCategory(t) ==
            /\ IsDefined(t.category)
            /\ toLowerCase(t.category[1]) = toLowerCase(validated.category[1])
        s1 == IF validated.status # "all" THEN SelectSeq(tasks, byStatus) ELSE tasks
        s2 == IF validated.priority # "all" THEN SelectSeq(s1, byPriority) ELSE s1
    IN IF Truthy(validated.category) THEN SelectSeq(s2, byCategory) ELSE s2

\* listTasks, "Add summary": counts over the unfiltered collection
Summary(tasks) ==
    LET isPending(t) == t.status = "pending"
        isInProgress(t) == t.status = "in_progress"
        isCompleted(t) == t.status = "completed"
    IN [pending |-> Len(SelectSeq(tasks, isPending)),
        inProgress |-> Len(SelectSeq(tasks, isInProgress)),
        completed |-> Len(SelectSeq(tasks, isCompleted))]

\* the tasks listTasks shows, in the order it shows them
ListedTasks(tasks, validated) == sort(ApplyFilters(tasks, validated))

\* what listTasks returns for a loaded collection
ListOutput(tasks, validated) ==
    LET found == ApplyFilters(tasks, validated)
        sorted == ListedTasks(tasks, validated)
    IN IF Len(found) = 0
       THEN Text("no_tasks_found", <<>>)
       ELSE Text("list", [tasks |-> [i \in 1..Len(sorted) |-> formatTask(sorted[i])],
                          summary |-> Summary(tasks)])

\* ------------------------------------------------------------ searchTasks
SearchOutput(tasks, validated) ==
    LET query == toLowerCase(validated.query)
        matches(t) ==
            \/ includes(toLowerCase(t.title), query)
            \/ Truthy(t.description) /\ includes(toLowerCase(t.description[1]), query)
        matchingTasks == SelectSeq(tasks, matches)
    IN IF Len(matchingTasks) = 0
       THEN Text("no_matches", validated.query)
       ELSE Text("search", [query |-> validated.query,
                            tasks |-> [i \in 1..Len(matchingTasks) |-> formatTask(matchingTasks[i])]])

\* ------------------------------------------------------------ getTaskStats
\* Instant t of the clock falls on day t + 1 of January 2025.
DigitChar(n) == CHOOSE c \in Digits : CharRank(c) = n + 1

\* new Date(ms).toISOString().split("T")[0]
IsoDate(t) ==
    <<"2", "0", "2", "5", "-", "0", "1", "-", DigitChar((t + 1) \div 10), DigitChar((t + 1) % 10)>>

DaysPerWeek == 7

\* toFixed(1) of completed / total * 100, in tenths of a percent
CompletionRate(completed, total) ==
    IF total > 0 THEN (2000 * completed + total) \div (2 * total) ELSE 0

StatsOutput(tasks, t) ==
    LET today == IsoDate(t)
        oneWeekFromNow == IsoDate(t + DaysPerWeek)
        isHigh(x) == x.priority = "high"
        isMedium(x) == x.priority = "medium"
        isLow(x) == x.priority = "low"
        isOverdue(x) ==
            x.status # "completed" /\ Truthy(x.dueDate) /\ StrLess(x.dueDate[1], today)
        isDueSoon(x) ==
            /\ x.status # "completed" /\ Truthy(x.dueDate)
            /\ ~StrLess(x.dueDate[1], today)
            /\ ~StrLess(oneWeekFromNow, x.dueDate[1])
        cats == {tasks[i].category[1] : i \in {j \in 1..Len(tasks) : Truthy(tasks[j].category)}}
        byStatus == Summary(tasks)
    IN IF Len(tasks) = 0
       THEN Text("no_tasks_yet", <<>>)
       ELSE Text("stats",
                 [total |-> Len(tasks),
                  completionRate |-> CompletionRate(byStatus.completed, Len(tasks)),
                  byStatus |-> byStatus,
                  byPriority |-> [high |-> Len(SelectSeq(tasks, isHigh)),
                                  medium |-> Len(SelectSeq(tasks, isMedium)),
                                  low |-> Len(SelectSeq(tasks, isLow))],
                  categories |-> [c \in cats |->
                                    Cardinality({j \in 1..Len(tasks) : tasks[j].category = Some(c)})],
                  overdue |-> Len(SelectSeq(tasks, isOverdue)),
                  dueSoon |-> Len(SelectSeq(tasks, isDueSoon))])

\* ------------------------------------------------------------ inputs
TextA == <<"A">>
TextB == <<"R", "e", "v">>
Empty == <<>>
CatWork == <<"W", "o", "r", "k">>
CatWorkLower == <<"w", "o", "r", "k">>

NoOptions == [description |-> Undefined, priority |-> Undefined,
              category |-> Undefined, dueDate |-> Undefined]
AllOptions == [description |-> Some(<<"r", "e", "v">>), priority |-> Some("high"),
               category |-> Some(CatWork), dueDate |-> Some(Date1)]

WithTitle(opts, title) ==
    [title |-> title, description |-> opts.description, priority |-> opts.priority,
     category |-> opts.category, dueDate |-> opts.dueDate]

CreateInputs ==
    {WithTitle(NoOptions, Some(TextA)), WithTitle(AllOptions, Some(TextB))}
    \cup {WithTitle(NoOptions, Some(Empty)),
          WithTitle([NoOptions EXCEPT !.priority = Some("urgent"), !.dueDate = Some(BadDate)],
                    Undefined)}

\* task ids a caller may pass: the leading MinTaskIdLen characters of an id, or
\* all of the id that shares them with an other
TaskIdInputs ==
    {SubSeq(id, 1, MinTaskIdLen) : id \in IdSpace} \cup {MkId(1, 2)}

\* one character short of the schema's minimum
ShortTaskId == SubSeq(MkId(1, 1), 1, MinTaskIdLen - 1)

NoFields == [title |-> Undefined, description |-> Undefined, priority |-> Undefined,
             category |-> Undefined, dueDate |-> Undefined, status |-> Undefined]

UpdateFields ==
    {NoFields,
     [NoFields EXCEPT !.title = Some(TextB)],
     [NoFields EXCEPT !.title = Some(Empty)],
     [NoFields EXCEPT !.description = Some(<<"r", "e", "v">>)],
     [NoFields EXCEPT !.priority = Some("low")],
     [NoFields EXCEPT !.category = Some(CatWorkLower)],
     [NoFields EXCEPT !.dueDate = Some(Date1)],
     [NoFields EXCEPT !.status = Some("in_progress")],
     [NoFields EXCEPT !.status = Some("completed")],
     [title |-> Some(TextA), description |-> Some(Empty), priority |-> Some("medium"),
      category |-> Some(CatWork), dueDate |-> Some(Date1), status |-> Some("pending")]}

InvalidUpdateFields ==
    [NoFields EXCEPT !.priority = Some("urgent"), !.dueDate = Some(BadDate),
                     !.status = Some("done")]

WithTaskId(f, taskId) ==
    [taskId |-> taskId, title |-> f.title, description |-> f.description,
     priority |-> f.priority, category |-> f.category, dueDate |-> f.dueDate,
     status |-> f.status]

Prefix(id) == SubSeq(id, 1, MinTaskIdLen)

\* every field set against the prefix two ids share; a few against the other task ids
UpdateInputs ==
    {WithTaskId(f, Prefix(MkId(1, 1))) : f \in UpdateFields}
    \cup {WithTaskId(f, MkId(1, 2)) :
            f \in {[NoFields EXCEPT !.title = Some(TextB)],
                   [NoFields EXCEPT !.status = Some("completed")]}}
    \cup {WithTaskId(f, Prefix(MkId(2, 1))) :
            f \in {NoFields, [NoFields EXCEPT !.status = Some("completed")]}}
    \cup {WithTaskId(InvalidUpdateFields, MkId(1, 1)), WithTaskId(NoFields, ShortTaskId)}

TaskIdArgs == {[taskId |-> id] : id \in TaskIdInputs \cup {ShortTaskId}}

ListInputs ==
    {[status |-> s, priority |-> Undefined, category |-> Undefined] :
        s \in {Undefined, Some("pending"), Some("completed"), Some("done")}}

SearchInputs == {[query |-> q] : q \in {Empty, <<"r", "e", "v">>}}

\* ------------------------------------------------------------ operations
\* Each action is one tool call as index.ts dispatches it: parse the arguments
\* (a ZodError becomes a validation-error result), load, act, save, return.
Init ==
    /\ doc = <<>>
    /\ now = 0
    /\ issued = {}
    /\ calls = 0
    /\ result = [call |-> <<>>, text |-> Text("none", <<>>)]
    /\ unreadable = FALSE
    /\ STORAGE_TYPE = Undefined
    /\ table = <<>>
    /\ inflight = {}

\* the handler returns text r for the request <<name, arguments>>
Returns(name, args, r) ==
    /\ result' = [call |-> <<name, args>>, text |-> r]
    /\ calls' = calls + 1

\* no tool touches the router's choice or the table; a call handled in one step
\* leaves the calls in flight alone
Untouched == UNCHANGED <<STORAGE_TYPE, table, inflight>>

ReadOnly == UNCHANGED <<doc, now, issued, unreadable>> /\ Untouched

\* fs.writeJson has replaced the file: it reads back
Written == unreadable' = FALSE /\ Untouched

createTask(args) ==
    LET parsed == CreateTaskSchema(args) IN
    /\ calls < MaxCalls
    /\ IF parsed.errors # {}
       THEN Returns("create_task", args, ValidationError(parsed.errors)) /\ ReadOnly
       ELSE \E id \in uuidv4, t1 \in Date(now) : \E t2 \in Date(t1) :
               LET storage == loadTasks(doc, t1)
                   newTask == NewTask(parsed.value, id, t1)
               IN /\ Len(storage.tasks) < MaxTasks
                  /\ doc' = saveTasks([storage EXCEPT !.tasks = push(@, newTask)], t2)
                  /\ now' = t2
                  /\ issued' = issued \cup {id}
                  /\ Written
                  /\ Returns("create_task", args, Text("created", formatTask(newTask)))

listTasks(args) ==
    LET parsed == ListTasksSchema(args) IN
    /\ calls < MaxCalls
    /\ ReadOnly
    /\ IF parsed.errors # {}
       THEN Returns("list_tasks", args, ValidationError(parsed.errors))
       ELSE Returns("list_tasks", args, ListOutput(loadTasks(doc, now).tasks, parsed.value))

updateTask(args) ==
    LET parsed == UpdateTaskSchema(args)
        validated == parsed.value
    IN
    /\ calls < MaxCalls
    /\ IF parsed.errors # {}
       THEN Returns("update_task", args, ValidationError(parsed.errors)) /\ ReadOnly
       ELSE LET storage == loadTasks(doc, now)
                taskIndex == findIndex(storage.tasks, validated.taskId)
            IN IF taskIndex = 0
               THEN Returns("update_task", args, NotFound(validated.taskId)) /\ ReadOnly
               ELSE \E t1 \in Date(now) : \E t2 \in Date(t1) :
                       LET task == ApplyStatus(ApplyFields(storage.tasks[taskIndex], validated),
                                               validated, t1)
                       IN /\ doc' = saveTasks([storage EXCEPT !.tasks[taskIndex] = task], t2)
                          /\ now' = t2
                          /\ UNCHANGED issued
                          /\ Written
                          /\ Returns("update_task", args, Text("updated", formatTask(task)))

deleteTask(args) ==
    LET parsed == TaskIdSchema(args)
        validated == parsed.value
    IN
    /\ calls < MaxCalls
    /\ IF parsed.errors # {}
       THEN Returns("delete_task", args, ValidationError(parsed.errors)) /\ ReadOnly
       ELSE LET storage == loadTasks(doc, now)
                taskIndex == findIndex(storage.tasks, validated.taskId)
            IN IF taskIndex = 0
               THEN Returns("delete_task", args, NotFound(validated.taskId)) /\ ReadOnly
               ELSE \E t2 \in Date(now) :
                       /\ doc' = saveTasks([storage EXCEPT !.tasks = splice(@, taskIndex)], t2)
                       /\ now' = t2
                       /\ UNCHANGED issued
                       /\ Written
                       /\ Returns("delete_task", args, Text("deleted", storage.tasks[taskIndex].title))

completeTask(args) ==
    LET parsed == TaskIdSchema(args)
        validated == parsed.value
    IN
    /\ calls < MaxCalls
    /\ IF parsed.errors # {}
       THEN Returns("complete_task", args, ValidationError(parsed.errors)) /\ ReadOnly
       ELSE LET storage == loadTasks(doc, now)
                taskIndex == findIndex(storage.tasks, validated.taskId)
            IN IF taskIndex = 0
               THEN Returns("complete_task", args, NotFound(validated.taskId)) /\ ReadOnly
               ELSE \E t1 \in Date(now) : \E t2 \in Date(t1) :
                       LET task == MarkCompleted(storage.tasks[taskIndex], t1)
                       IN /\ doc' = saveTasks([storage EXCEPT !.tasks[taskIndex] = task], t2)
                          /\ now' = t2
                          /\ UNCHANGED issued
                          /\ Written
                          /\ Returns("complete_task", args, Text("completed", formatTask(task)))

searchTasks(args) ==
    LET parsed == SearchSchema(args) IN
    /\ calls < MaxCalls
    /\ ReadOnly
    /\ IF parsed.errors # {}
       THEN Returns("search_tasks", args, ValidationError(parsed.errors))
       ELSE Returns("search_tasks", args, SearchOutput(loadTasks(doc, now).tasks, parsed.value))

getTaskStats ==
    /\ calls < MaxCalls
    /\ \E t \in Date(now) :
          /\ now' = t
          /\ Returns("get_task_stats", <<>>, StatsOutput(loadTasks(doc, now).tasks, t))
    /\ UNCHANGED <<doc, issued, unreadable>>
    /\ Untouched

clearCompleted ==
    /\ calls < MaxCalls
    /\ \E t2 \in Date(now) :
          LET storage == loadTasks(doc, now)
              originalCount == Len(storage.tasks)
              kept == SelectSeq(storage.tasks, NotCompleted)
              removedCount == originalCount - Len(kept)
          IN /\ doc' = saveTasks([storage EXCEPT !.tasks = kept], t2)
             /\ now' = t2
             /\ Returns("clear_completed", <<>>, ClearMessage(removedCount, Len(kept)))
    /\ UNCHANGED issued
    /\ Written

Next ==
    \/ \E args \in CreateInputs : createTask(args)
    \/ \E args \in ListInputs : listTasks(args)
    \/ \E args \in UpdateInputs : updateTask(args)
    \/ \E args \in TaskIdArgs : deleteTask(args)
    \/ \E args \in TaskIdArgs : completeTask(args)
    \/ \E args \in SearchInputs : searchTasks(args)
    \/ getTaskStats
    \/ clearCompleted

Spec == Init /\ [][Next]_vars

\* ------------------------------------------------------------ properties
\* the persisted collection
Tasks == IF doc = <<>> THEN <<>> ELSE doc[1].tasks

\* the step is a call of the named tool; Args is what it was called with
Called(name) == calls' = calls + 1 /\ result'.call[1] = name
Args == result'.call[2]
Answer == result'.text

LastCall == IF result.call = <<>> THEN "none" ELSE result.call[1]
LastArgs == result.call[2]

\* positions of the tasks whose id begins with the characters of p
MatchSet(tasks, p) ==
    {i \in 1..Len(tasks) :
        /\ Len(p) <= Len(tasks[i].id)
        /\ \A k \in 1..Len(p) : tasks[i].id[k] = p[k]}

FirstMatch(tasks, p) ==
    CHOOSE i \in MatchSet(tasks, p) : \A j \in MatchSet(tasks, p) : i <= j

\* an instant the clock showed during the step
DuringStep(t) == now <= t /\ t <= now'

PendingOnly == [status |-> "pending", priority |-> "all", category |-> Undefined]
CompletedOnly == [status |-> "completed", priority |-> "all", category |-> Undefined]

C2_CompletedAtIffCompleted ==
    \A i \in 1..Len(Tasks) :
        IsDefined(Tasks[i].completedAt) <=> Tasks[i].status = "completed"

C2_Witness ==
    /\ LastCall = "update_task"
    /\ result.text.kind = "updated"
    /\ IsDefined(LastArgs.status)
    /\ LastArgs.status[1] = "in_progress"
    /\ \E i \in 1..Len(Tasks) :
          /\ Tasks[i].createdAt < now
          /\ Tasks[i].status = "in_progress"
          /\ ~IsDefined(Tasks[i].completedAt)

\* C3: on a found task, update without status keeps completedAt; update with
\* status completed stamps the current time only when completedAt was absent and
\* keeps it otherwise; update with status pending or in_progress clears it.
C3_UpdateCompletedAt ==
    [][(Called("update_task") /\ Answer.kind = "updated") =>
          LET i == FirstMatch(Tasks, Args.taskId)
              old == Tasks[i].completedAt
              new == Tasks'[i].completedAt
          IN IF ~IsDefined(Args.status) THEN new = old
             ELSE IF Args.status[1] = "completed"
                  THEN IF IsDefined(old) THEN new = old
                       ELSE IsDefined(new) /\ DuringStep(new[1])
                  ELSE new = Undefined]_vars

\* update(status = completed) on a task completed at instant 0, answered at instant 1
C3_Witness ==
    /\ LastCall = "update_task"
    /\ result.text.kind = "updated"
    /\ LastArgs.status = Some("completed")
    /\ LastArgs.title = Undefined
    /\ calls = 3
    /\ now = 1
    /\ Len(Tasks) = 1
    /\ Tasks[1].completedAt = Some(0)

IdsOf(tasks) == {tasks[i].id : i \in 1..Len(tasks)}
Shows(tasks, validated, id) == id \in IdsOf(ListedTasks(tasks, validated))

\* C4: a task just created is in list(status=pending); once complete succeeds on
\* it, it is in list(status=completed) and not in list(status=pending), in every
\* list call for as long as the task stays with that status.
C4_ListFollowsStatus ==
    [][/\ (Called("create_task") /\ Answer.kind = "created") =>
            /\ Len(Tasks') = Len(Tasks) + 1
            /\ Shows(Tasks', PendingOnly, Tasks'[Len(Tasks')].id)
       /\ (Called("complete_task") /\ Answer.kind = "completed") =>
            LET id == Tasks[FirstMatch(Tasks, Args.taskId)].id
            IN /\ Shows(Tasks', CompletedOnly, id)
               /\ ~Shows(Tasks', PendingOnly, id)
       /\ doc' # doc =>
          \A i \in 1..Len(Tasks), j \in 1..Len(Tasks') :
            (Tasks'[j].id = Tasks[i].id /\ Tasks'[j].status = Tasks[i].status) =>
                \A f \in {PendingOnly, CompletedOnly} :
                    Shows(Tasks', f, Tasks[i].id) <=> Shows(Tasks, f, Tasks[i].id)
       /\ (/\ Called("list_tasks")
           /\ Args.status \in {Some("pending"), Some("completed")}
           /\ Args.priority = Undefined /\ Args.category = Undefined) =>
            /\ Tasks' = Tasks
            /\ \A i \in 1..Len(Tasks) :
                 (Tasks[i].status = Args.status[1]) <=>
                     /\ Answer.kind = "list"
                     /\ formatTask(Tasks[i]) \in Range(Answer.payload.tasks)]_vars

C4_Witness ==
    /\ LastCall = "list_tasks"
    /\ LastArgs.status = Some("completed") /\ LastArgs.priority = Undefined
    /\ result.text.kind = "list"
    /\ Len(result.text.payload.tasks) = 1
    /\ Len(Tasks) = 1
    /\ Tasks[1].status = "completed"
    /\ result.text.payload.tasks[1] = formatTask(Tasks[1])

\* the five plain fields of an update request
PlainFields == {"title", "description", "priority", "category", "dueDate"}

\* the value a present field of the request asks for (title and priority are
\* stored bare, the optional fields as they are)
Requested(args, f) == IF f \in {"title", "priority"} THEN args[f][1] ELSE args[f]

\* C5: a successful update changes, on the one resolved task, only the fields
\* present in the request (and completedAt when status is present); its other
\* fields, its id and createdAt, and every other task stay as they were; and no
\* operation changes the id or createdAt of a task that stays in the collection.
C5_UpdateFrame ==
    [][/\ (Called("update_task") /\ Answer.kind = "updated") =>
            LET i == FirstMatch(Tasks, Args.taskId) IN
            /\ Len(Tasks') = Len(Tasks)
            /\ \A j \in 1..Len(Tasks) : j # i => Tasks'[j] = Tasks[j]
            /\ Tasks'[i].id = Tasks[i].id
            /\ Tasks'[i].createdAt = Tasks[i].createdAt
            /\ \A f \in PlainFields :
                 Tasks'[i][f] = IF IsDefined(Args[f]) THEN Requested(Args, f) ELSE Tasks[i][f]
            /\ IF IsDefined(Args.status)
               THEN Tasks'[i].status = Args.status[1]
               ELSE /\ Tasks'[i].status = Tasks[i].status
                    /\ Tasks'[i].completedAt = Tasks[i].completedAt
       /\ (doc' # doc /\ Len(Tasks') = Len(Tasks)) =>
            \A j \in 1..Len(Tasks) :
                Tasks'[j].id = Tasks[j].id /\ Tasks'[j].createdAt = Tasks[j].createdAt
       /\ doc' # doc =>
          \A j \in 1..Len(Tasks') :
            Tasks'[j].id \in IdsOf(Tasks) =>
                \E k \in 1..Len(Tasks) :
                    Tasks[k].id = Tasks'[j].id /\ Tasks[k].createdAt = Tasks'[j].createdAt]_vars

\* an update that named only the description, on a task that keeps its other fields
C5_Witness ==
    /\ LastCall = "update_task"
    /\ result.text.kind = "updated"
    /\ LastArgs.title = Undefined /\ LastArgs.status = Undefined
    /\ IsDefined(LastArgs.description)
    /\ Len(Tasks) = 2
    /\ \E i \in 1..2 :
          /\ startsWith(Tasks[i].id, LastArgs.taskId)
          /\ Tasks[i].description = LastArgs.description
          /\ Tasks[i].title = TextA
          /\ Tasks[i].createdAt < now

\* the request is well formed: a task id of at least MinTaskIdLen characters and,
\* for update, every field it carries drawn from the values a field may take
WellFormed(name, args) ==
    /\ Len(args.taskId) >= MinTaskIdLen
    /\ name = "update_task" =>
          /\ args.priority \in {Undefined} \cup {Some(v) : v \in Priorities}
          /\ args.status \in {Undefined} \cup {Some(v) : v \in Statuses}
          /\ args.dueDate \in {Undefined, Some(Date1)}

\* C6: when the prefix given to update, delete or complete matches no id, the
\* call returns a not-found result and the document, lastUpdated included, is as before.
C6_NotFoundLeavesDocument ==
    [][\A name \in {"update_task", "delete_task", "complete_task"} :
          (/\ Called(name)
           /\ WellFormed(name, Args)
           /\ MatchSet(Tasks, Args.taskId) = {}) =>
              /\ Answer.kind = "not_found"
              /\ doc' = doc]_vars

C6_Witness ==
    /\ LastCall = "delete_task"
    /\ result.text.kind = "not_found"
    /\ Len(Tasks) = 1
    /\ MatchSet(Tasks, LastArgs.taskId) = {}
    /\ doc[1].lastUpdated < now

\* C7: update, delete and complete act on exactly one task, the first in
\* collection order whose id starts with the given prefix; later tasks sharing
\* the prefix stay as they were, and delete removes that one task and keeps the
\* order of the rest.
C7_FirstMatchOnly ==
    [][\A name \in {"update_task", "delete_task", "complete_task"} :
          (/\ Called(name)
           /\ WellFormed(name, Args)
           /\ MatchSet(Tasks, Args.taskId) # {}) =>
              LET first == FirstMatch(Tasks, Args.taskId) IN
              IF name = "delete_task"
              THEN /\ Answer = Text("deleted", Tasks[first].title)
                   /\ Len(Tasks') = Len(Tasks) - 1
                   /\ \A j \in 1..(first - 1) : Tasks'[j] = Tasks[j]
                   /\ \A j \in first..(Len(Tasks) - 1) : Tasks'[j] = Tasks[j + 1]
              ELSE /\ Answer.kind = IF name = "update_task" THEN "updated" ELSE "completed"
                   /\ Answer.payload = formatTask(Tasks'[first])
                   /\ Len(Tasks') = Len(Tasks)
                   /\ \A j \in 1..Len(Tasks) : j # first => Tasks'[j] = Tasks[j]
                   /\ Tasks'[first].id = Tasks[first].id
                   /\ name = "complete_task" => Tasks'[first].status = "completed"
                   /\ (name = "update_task" /\ IsDefined(Args.status)) =>
                          Tasks'[first].status = Args.status[1]]_vars

\* a delete by the shared prefix took the first of the two tasks that have it;
\* the other is still there
C7_Witness ==
    /\ LastCall = "delete_task"
    /\ result.text.kind = "deleted"
    /\ LastArgs.taskId = Prefix(MkId(1, 1))
    /\ Len(Tasks) = 1
    /\ MatchSet(Tasks, LastArgs.taskId) = {1}

\* C8: complete on a found task sets status completed and completedAt to the
\* current time whatever completedAt was; update(status=completed) on a task
\* that has a completedAt keeps it.
C8_CompleteOverwrites ==
    [][/\ (Called("complete_task") /\ Answer.kind = "completed") =>
            LET new == Tasks'[FirstMatch(Tasks, Args.taskId)]
            IN /\ new.status = "completed"
               /\ IsDefined(new.completedAt)
               /\ DuringStep(new.completedAt[1])
       /\ (/\ Called("update_task") /\ Answer.kind = "updated"
           /\ Args.status = Some("completed")
           /\ IsDefined(Tasks[FirstMatch(Tasks, Args.taskId)].completedAt)) =>
            Tasks'[FirstMatch(Tasks, Args.taskId)].completedAt
                = Tasks[FirstMatch(Tasks, Args.taskId)].completedAt]_vars

\* a task created at instant 0 that complete stamped at instant 1
C8_Witness ==
    /\ LastCall = "complete_task"
    /\ result.text.kind = "completed"
    /\ result.text.payload.created = 0
    /\ result.text.payload.completed = Some(1)
    /\ \E i \in 1..Len(Tasks) :
          /\ startsWith(Tasks[i].id, LastArgs.taskId)
          /\ Tasks[i].completedAt = Some(1)

\* C10: every persisted task has a non-empty title.
C10_TitleNonEmpty ==
    \A i \in 1..Len(Tasks) : Len(Tasks[i].title) >= 1

\* positions of the tasks that are not completed
KeptAt(tasks) == {i \in 1..Len(tasks) : tasks[i].status # "completed"}

\* C14: a persisted task that has a completedAt was created no later than it
\* was completed.
C14_CreatedBeforeCompleted ==
    \A i \in 1..Len(Tasks) :
        IsDefined(Tasks[i].completedAt) => Tasks[i].createdAt <= Tasks[i].completedAt[1]

\* an update set a task created at instant 0 to completed at instant 1
C14_Witness ==
    /\ LastCall = "update_task"
    /\ result.text.kind = "updated"
    /\ LastArgs.status = Some("completed")
    /\ \E i \in 1..Len(Tasks) :
          /\ Tasks[i].createdAt = 0
          /\ Tasks[i].completedAt = Some(1)

\* C17 as claimed: a call that leaves the task collection as it was leaves the
\* stored document, lastUpdated included, as it was.
C17_PersistOnlyWhenChanged ==
    [][(calls' = calls + 1 /\ Tasks' = Tasks) => doc' = doc]_vars

\* the update request carries nothing but the task id
OnlyTaskId(args) ==
    \A f \in PlainFields \cup {"status"} : ~IsDefined(args[f])

\* C17 as amended: list, search, stats and every call answered with a not-found
\* or validation error leave the stored document as it was; clear-completed, and
\* update on a task it found, always write the document with lastUpdated set to
\* the current time, also when no task is completed or the request carries only
\* the task id, and then the tasks are as before.
C17_PersistsUnlessReadOnly ==
    [][/\ (Called("list_tasks") \/ Called("search_tasks") \/ Called("get_task_stats")) =>
            doc' = doc
       /\ (calls' = calls + 1 /\ Answer.kind \in {"not_found", "validation_error"}) =>
            doc' = doc
       /\ Called("clear_completed") =>
            /\ doc' # <<>>
            /\ doc'[1].lastUpdated = now'
            /\ KeptAt(Tasks) = 1..Len(Tasks) => Tasks' = Tasks
       /\ (Called("update_task") /\ Answer.kind = "updated") =>
            /\ doc'[1].lastUpdated = now'
            /\ OnlyTaskId(Args) => Tasks' = Tasks]_vars

\* clear-completed found nothing to clear in a one-task document and stamped it
C17_Witness ==
    /\ LastCall = "clear_completed"
    /\ result.text.kind = "nothing_to_clear"
    /\ Len(Tasks) = 1
    /\ Tasks[1].createdAt = 0
    /\ now = 1
    /\ doc[1].lastUpdated = 1

\* ------------------------------------------------------------ clearing a stored collection
\* The server started on a document an earlier run left: ClearTasks tasks, each
\* in any status, a completed one stamped.
ClearTasks == 5

StoredId(i) == MkId((i + 1) \div 2, i % 2)

StoredTask(i, status) ==
    [NewTask(CreateTaskSchema(WithTitle(NoOptions, Some(TextA))).value, StoredId(i), 0)
        EXCEPT !.status = status,
               !.completedAt = IF status = "completed" THEN Some(0) ELSE Undefined]

InitClear ==
    /\ \E st \in [1..ClearTasks -> Statuses] :
          doc = <<[tasks |-> [i \in 1..ClearTasks |-> StoredTask(i, st[i])], lastUpdated |-> 0]>>
    /\ now = 0
    /\ issued = {StoredId(i) : i \in 1..ClearTasks}
    /\ calls = 0
    /\ result = [call |-> <<>>, text |-> Text("none", <<>>)]
    /\ unreadable = FALSE
    /\ STORAGE_TYPE = Undefined
    /\ table = <<>>
    /\ inflight = {}

NextClear ==
    \/ clearCompleted
    \/ \E args \in {[taskId |-> Prefix(MkId(1, 1))]} : completeTask(args)

SpecClear == InitClear /\ [][NextClear]_vars

\* the k-th of the tasks that are not completed
Kth(tasks, k) ==
    CHOOSE i \in KeptAt(tasks) : Cardinality({j \in KeptAt(tasks) : j < i}) = k - 1

\* C9: clear-completed removes the completed tasks and no other, keeps the rest
\* in order, and reports the number removed and the number left; with nothing
\* completed it reports that there is nothing to clear.
C9_ClearCompleted ==
    [][Called("clear_completed") =>
          LET removed == Len(Tasks) - Cardinality(KeptAt(Tasks)) IN
          /\ Len(Tasks') = Cardinality(KeptAt(Tasks))
          /\ \A k \in 1..Len(Tasks') : Tasks'[k] = Tasks[Kth(Tasks, k)]
          /\ IF removed = 0
             THEN Answer = Text("nothing_to_clear", <<>>)
             ELSE Answer = Text("cleared", [removed |-> removed, remaining |-> Len(Tasks')])]_vars

\* three completed and two pending: exactly the two pending are left
C9_Witness ==
    /\ LastCall = "clear_completed"
    /\ calls = 1
    /\ result.text = Text("cleared", [removed |-> 3, remaining |-> 2])
    /\ Len(Tasks) = 2
    /\ Tasks[1].status = "pending" /\ Tasks[2].status = "pending"

\* ------------------------------------------------------------ storage-db.ts
\* `x || null`: a value that is undefined or empty is stored as NULL; NULL reads
\* back as a field without a value
OrNull(o) == IF Truthy(o) THEN o ELSE Undefined

\* the row stmt.run writes for a task
Row(task) ==
    [task EXCEPT !.description = OrNull(@),
                 !.category = OrNull(@),
                 !.dueDate = OrNull(@),
                 !.completedAt = IF IsDefined(@) THEN @ ELSE Undefined]

\* storage-db.ts loadTasks: SELECT * FROM tasks
dbLoadTasks(rows, t) == [tasks |-> rows, lastUpdated |-> t]

\* the table's constraints: a row whose priority or status fails its CHECK is refused
RowFails(task) == task.priority \notin Priorities \/ task.status \notin Statuses

\* INSERT OR REPLACE: a row with that id is dropped, the new row goes in last
upsert(rows, task) ==
    LET other(r) == r.id # task.id
    IN Append(SelectSeq(rows, other), Row(task))

RECURSIVE upsertAll(_, _)
\* the loop of the transaction
upsertAll(rows, tasks) ==
    IF tasks = <<>> THEN rows ELSE upsertAll(upsert(rows, Head(tasks)), Tail(tasks))

\* storage-db.ts saveTasks: one transaction, rolled back when a row is refused
dbSaveTasks(rows, storage) ==
    IF \E i \in 1..Len(storage.tasks) : RowFails(storage.tasks[i])
    THEN [threw |-> TRUE, rows |-> rows]
    ELSE [threw |-> FALSE, rows |-> upsertAll(rows, storage.tasks)]

\* storage-db.ts deleteTask: DELETE FROM tasks WHERE id = ?
dbDeleteTask(rows, taskId) ==
    LET other(r) == r.id # taskId
    IN [rows |-> SelectSeq(rows, other),
        changed |-> Len(SelectSeq(rows, other)) < Len(rows)]

\* ------------------------------------------------------------ storage router
FileType == <<"f", "i", "l", "e">>
DbTypes == {<<"d", "a", "t", "a", "b", "a", "s", "e">>, <<"d", "b">>}

\* (process.env.STORAGE_TYPE || "file").toLowerCase()
StorageTypeOf(env) == toLowerCase(IF Truthy(env) THEN env[1] ELSE FileType)

\* the loadTasks the router exports: that of the module STORAGE_TYPE selects
routerLoadTasks(t) ==
    IF StorageTypeOf(STORAGE_TYPE) \in DbTypes THEN dbLoadTasks(table, t) ELSE loadTasks(doc, t)

\* ------------------------------------------------------------ index.ts, the other handlers
\* a failure thrown out of a request handler: the transport answers with an error
Raises(name, args, e) ==
    /\ result' = [call |-> <<name, args>>, text |-> [kind |-> "raised", payload |-> e]]
    /\ calls' = calls + 1

KnownTools == {"create_task", "list_tasks", "update_task", "delete_task", "complete_task",
               "search_tasks", "get_task_stats", "clear_completed"}

\* the switch's default branch throws inside the try; the catch turns the error
\* into a text result
callUnknownTool(name) ==
    /\ calls < MaxCalls
    /\ name \notin KnownTools
    /\ Returns(name, <<>>, Text("error", <<"Unknown tool", name>>))
    /\ ReadOnly

ListUri == "tasks://list"

\* the ReadResource handler: the collection the router's loadTasks returns, as JSON
readResource(uri) ==
    /\ calls < MaxCalls
    /\ ReadOnly
    /\ IF uri = ListUri
       THEN IF StorageTypeOf(STORAGE_TYPE) \notin DbTypes /\ loadTasksThrows(doc)
            THEN Raises("resources/read", uri, "Error loading tasks")
            ELSE Returns("resources/read", uri, Text("resource", stringify(routerLoadTasks(now).tasks)))
       ELSE Raises("resources/read", uri, "Unknown resource")

\* the environment: from now on reading tasks.json fails (until it is written again)
readFault ==
    /\ doc # <<>>
    /\ ~unreadable
    /\ unreadable' = TRUE
    /\ UNCHANGED <<doc, now, issued, calls, result>>
    /\ Untouched

\* The server as a whole: started with either backend selected, on a table an
\* earlier run may have left a row in.
ServerCreateInputs ==
    {WithTitle(NoOptions, Some(TextA)), WithTitle(NoOptions, Some(Empty))}
ServerTaskIdArgs == {[taskId |-> Prefix(MkId(1, 1))], [taskId |-> Prefix(MkId(2, 1))]}

InitServer ==
    /\ doc = <<>>
    /\ now = 0
    /\ issued = {}
    /\ calls = 0
    /\ result = [call |-> <<>>, text |-> Text("none", <<>>)]
    /\ unreadable = FALSE
    /\ STORAGE_TYPE \in {Undefined, Some(<<"D", "B">>)}
    /\ table \in {<<>>, <<Row(StoredTask(4, "pending"))>>}
    /\ inflight = {}

NextServer ==
    \/ \E args \in ServerCreateInputs : createTask(args)
    \/ \E args \in ServerTaskIdArgs : deleteTask(args)
    \/ \E name \in {"drop_tasks"} : callUnknownTool(name)
    \/ \E uri \in {ListUri, "tasks://other"} : readResource(uri)
    \/ readFault

SpecServer == InitServer /\ [][NextServer]_vars

\* the collection the listing surface reads
Surface == routerLoadTasks(now).tasks

\* C11: with either backend selected, a task a successful create returned is in
\* the collection the listing surface reads, and a task a successful delete
\* removed is not.
C11_SameBackend ==
    [][/\ (Called("create_task") /\ Answer.kind = "created") =>
            Tasks'[Len(Tasks')].id \in IdsOf(Surface')
       /\ (Called("delete_task") /\ Answer.kind = "deleted") =>
            Tasks[FirstMatch(Tasks, Args.taskId)].id \notin IdsOf(Surface')]_vars

\* C15: a call that names none of the eight tools is answered with a raised
\* failure, not with a text result, and leaves the stored collection as it was.
C15_UnknownToolRaises ==
    [][\A name \in {"drop_tasks"} :
          Called(name) =>
              /\ Answer.kind = "raised"
              /\ doc' = doc
              /\ table' = table]_vars

\* what is stored in tasks.json, when it can be read
Readable == doc # <<>> /\ ~unreadable

\* C19: the snapshot backend's load never raises to the resource handler that
\* calls it: the handler answers with the document's tasks when the document is
\* there and reads, and with an empty collection when it is absent or fails to read.
C19_LoadNeverRaises ==
    [][(/\ Called("resources/read")
        /\ Args = ListUri
        /\ StorageTypeOf(STORAGE_TYPE) \notin DbTypes) =>
            /\ Answer.kind = "resource"
            /\ Answer.payload = stringify(IF Readable THEN doc[1].tasks ELSE <<>>)
            /\ doc' = doc]_vars

\* the listing was read while a document holding a task could not be read
C19_Witness ==
    /\ LastCall = "resources/read"
    /\ LastArgs = ListUri
    /\ STORAGE_TYPE = Undefined
    /\ unreadable
    /\ Len(Tasks) = 1
    /\ result.text = Text("resource", <<>>)

\* C20: a successful create keeps every task the document held before the call,
\* in place, and adds the one new task, also when the call's read of the
\* document fails.
C20_CreateOnlyAdds ==
    [][(Called("create_task") /\ Answer.kind = "created") =>
          /\ Len(Tasks') = Len(Tasks) + 1
          /\ \A i \in 1..Len(Tasks) : Tasks'[i] = Tasks[i]
          /\ formatTask(Tasks'[Len(Tasks')]) = Answer.payload]_vars

\* ------------------------------------------------------------ the two backends, called directly
\* A caller of the storage contract: it saves collections of up to StoreTasks
\* tasks and loads them back, on either backend, over what an earlier run left.
StoreTasks == 2
StoreCalls == 2

StoreTask(id, description, priority) ==
    [NewTask(CreateTaskSchema(WithTitle(NoOptions, Some(TextA))).value, id, 0)
        EXCEPT !.description = description, !.priority = priority]

\* tasks with and without a description, one with an empty one, and one whose
\* priority the table refuses
StoreTaskSet ==
    {StoreTask(id, d, "medium") :
        id \in {MkId(1, 1), MkId(1, 2)}, d \in {Undefined, Some(Empty), Some(TextB)}}
    \cup {StoreTask(MkId(2, 1), Undefined, "urgent")}

\* collections of tasks with different ids
StoreInputs ==
    {c \in UNION {[1..n -> StoreTaskSet] : n \in 0..StoreTasks} :
        \A i, j \in 1..Len(c) : i # j => c[i].id # c[j].id}

InitStore ==
    /\ doc \in {<<>>, saveTasks([tasks |-> <<StoreTask(MkId(1, 2), Undefined, "low")>>], 0)}
    /\ table \in {<<>>, <<Row(StoreTask(MkId(1, 2), Some(TextB), "low"))>>}
    /\ now = 0
    /\ issued = {}
    /\ calls = 0
    /\ result = [call |-> <<>>, text |-> Text("none", <<>>)]
    /\ unreadable = FALSE
    /\ STORAGE_TYPE = Undefined
    /\ inflight = {}

StoreFrame == UNCHANGED <<issued, unreadable, STORAGE_TYPE, inflight>>

fileSave(tasks) ==
    /\ calls < StoreCalls
    /\ \E t \in Date(now) :
          /\ doc' = saveTasks([tasks |-> tasks, lastUpdated |-> now], t)
          /\ now' = t
    /\ Returns("saveTasks", tasks, Text("saved", <<>>))
    /\ UNCHANGED table
    /\ StoreFrame

fileLoad ==
    /\ calls < StoreCalls
    /\ Returns("loadTasks", <<>>, Text("loaded", loadTasks(doc, now).tasks))
    /\ UNCHANGED <<doc, table, now>>
    /\ StoreFrame

dbSave(tasks) ==
    LET saved == dbSaveTasks(table, [tasks |-> tasks, lastUpdated |-> now]) IN
    /\ calls < StoreCalls
    /\ table' = saved.rows
    /\ IF saved.threw
       THEN Raises("db.saveTasks", tasks, "constraint failed")
       ELSE Returns("db.saveTasks", tasks, Text("saved", <<>>))
    /\ UNCHANGED <<doc, now>>
    /\ StoreFrame

dbLoad ==
    /\ calls < StoreCalls
    /\ Returns("db.loadTasks", <<>>, Text("loaded", dbLoadTasks(table, now).tasks))
    /\ UNCHANGED <<doc, table, now>>
    /\ StoreFrame

dbDelete(taskId) ==
    LET deleted == dbDeleteTask(table, taskId) IN
    /\ calls < StoreCalls
    /\ table' = deleted.rows
    /\ Returns("db.deleteTask", taskId, Text("deleted", deleted.changed))
    /\ UNCHANGED <<doc, now>>
    /\ StoreFrame

NextStore ==
    \/ \E tasks \in StoreInputs : fileSave(tasks)
    \/ fileLoad
    \/ \E tasks \in StoreInputs : dbSave(tasks)
    \/ dbLoad
    \/ \E id \in IdSpace : dbDelete(id)

SpecStore == InitStore /\ [][NextStore]_vars

\* the tasks of a collection, as a set
TaskSet(tasks) == {tasks[i] : i \in 1..Len(tasks)}

\* C12: on each backend, whatever was stored before, a load after saveAll(C)
\* returns the tasks of C and no other: the same ids, each with the field
\* values it has in C.
C12_SaveLoadRoundTrip ==
    [][/\ Called("saveTasks") =>
            TaskSet((loadTasks(doc, now).tasks)') = TaskSet(Args)
       /\ (Called("db.saveTasks") /\ Answer.kind = "saved") =>
            TaskSet((dbLoadTasks(table, now).tasks)') = TaskSet(Args)]_vars

\* the row of the table with the given id
RowOf(rows, id) == rows[CHOOSE i \in 1..Len(rows) : rows[i].id = id]

\* C18: saveAll(C) on the indexed backend leaves the stored ids as the ids stored
\* before together with those of C; each task of C is stored with its field
\* values and every other row is as before; when a row is refused the call fails
\* and the table is as before.
C18_SaveAllUpserts ==
    [][Called("db.saveTasks") =>
          IF \E i \in 1..Len(Args) : RowFails(Args[i])
          THEN Answer.kind = "raised" /\ table' = table
          ELSE /\ Answer.kind = "saved"
               /\ IdsOf(table') = IdsOf(table) \cup IdsOf(Args)
               /\ Len(table') = Cardinality(IdsOf(table'))
               /\ \A i \in 1..Len(Args) : RowOf(table', Args[i].id) = Args[i]
               /\ \A i \in 1..Len(table) :
                    table[i].id \notin IdsOf(Args) => RowOf(table', table[i].id) = table[i]]_vars

\* ------------------------------------------------------------ listing a stored collection
\* The server started on a document of ListTasks tasks, each with any priority,
\* with or without a due date, pending without a category or completed with one.
ListTasks == 3
ListCalls == 1

\* the latest date the schema's pattern admits
LastDate == <<"9", "9", "9", "9", "-", "9", "9", "-", "9", "9">>

ListedTask(i, priority, dueDate, status) ==
    [StoredTask(i, status) EXCEPT
        !.id = MkId(i, 1),
        !.priority = priority,
        !.dueDate = dueDate,
        !.category = IF status = "completed" THEN Some(CatWork) ELSE Undefined]

InitList ==
    /\ \E pr \in [1..ListTasks -> Priorities],
          du \in [1..ListTasks -> {Undefined, Some(Date1), Some(LastDate)}],
          st \in [1..ListTasks -> {"pending", "completed"}] :
          doc = <<[tasks |-> [i \in 1..ListTasks |-> ListedTask(i, pr[i], du[i], st[i])],
                   lastUpdated |-> 0]>>
    /\ now = 0
    /\ issued = {MkId(i, 1) : i \in 1..ListTasks}
    /\ calls = MaxCalls - ListCalls
    /\ result = [call |-> <<>>, text |-> Text("none", <<>>)]
    /\ unreadable = FALSE
    /\ STORAGE_TYPE = Undefined
    /\ table = <<>>
    /\ inflight = {}

ListArgs ==
    {[status |-> s, priority |-> p, category |-> c] :
        s \in {Undefined, Some("pending"), Some("all")},
        p \in {Undefined, Some("high")},
        c \in {Undefined, Some(CatWorkLower)}}

NextList == \E args \in ListArgs : listTasks(args)

SpecList == InitList /\ [][NextList]_vars

\* the task passes the filters the request carries
Passes(task, args) ==
    /\ (IsDefined(args.status) /\ args.status[1] # "all") => task.status = args.status[1]
    /\ (IsDefined(args.priority) /\ args.priority[1] # "all") => task.priority = args.priority[1]
    /\ IsDefined(args.category) =>
          /\ IsDefined(task.category)
          /\ toLowerCase(task.category[1]) = toLowerCase(args.category[1])

Rank(p) == CASE p = "high" -> 0 [] p = "medium" -> 1 [] p = "low" -> 2

\* line a of the listing may stand before line b
InOrder(a, b) ==
    \/ Rank(a.priority) < Rank(b.priority)
    \/ /\ a.priority = b.priority
       /\ IF IsDefined(a.due) THEN IsDefined(b.due) => ~StrLess(b.due[1], a.due[1])
          ELSE ~IsDefined(b.due)

\* C13: list shows exactly the tasks that pass the status, priority and category
\* filters, by priority high, medium, low and within a priority by due date, the
\* tasks without a due date after all that have one; priorities low, high,
\* medium with due dates 2025-01-01, none, 2025-01-01 come out high, medium, low.
C13_ListFiltersAndSorts ==
    [][Called("list_tasks") =>
          LET passing == {i \in 1..Len(Tasks) : Passes(Tasks[i], Args)}
              shown == Answer.payload.tasks
          IN IF passing = {}
             THEN Answer.kind = "no_tasks_found"
             ELSE /\ Answer.kind = "list"
                  /\ Len(shown) = Cardinality(passing)
                  /\ Range(shown) = {formatTask(Tasks[i]) : i \in passing}
                  /\ \A a, b \in 1..Len(shown) : a < b => InOrder(shown[a], shown[b])
                  /\ (/\ passing = 1..3
                      /\ <<Tasks[1].priority, Tasks[2].priority, Tasks[3].priority>>
                            = <<"low", "high", "medium">>
                      /\ <<Tasks[1].dueDate, Tasks[2].dueDate, Tasks[3].dueDate>>
                            = <<Some(Date1), Undefined, Some(Date1)>>) =>
                        shown = <<formatTask(Tasks[2]), formatTask(Tasks[3]),
                                  formatTask(Tasks[1])>>]_vars

\* ------------------------------------------------------------ calls in flight together
\* The handler is an async function: it gives up control while the file is read
\* and while it is written, and nothing in it keeps a second call from starting
\* in between.  createTask in its two parts, before and after the load returns.
beginCreate(args) ==
    LET parsed == CreateTaskSchema(args)
        storage == loadTasks(doc, now)
    IN
    /\ calls + Cardinality(inflight) < MaxCalls
    /\ IF parsed.errors # {}
       THEN Returns("create_task", args, ValidationError(parsed.errors)) /\ ReadOnly
       ELSE /\ Len(storage.tasks) < MaxTasks
            /\ inflight' = inflight \cup
                  {[n |-> calls + Cardinality(inflight) + 1, args |-> args,
                    validated |-> parsed.value, storage |-> storage]}
            /\ UNCHANGED <<doc, now, issued, calls, result, unreadable, STORAGE_TYPE, table>>

endCreate(c) ==
    /\ c \in inflight
    /\ \E id \in uuidv4, t1 \in Date(now) : \E t2 \in Date(t1) :
          LET newTask == NewTask(c.validated, id, t1)
          IN /\ doc' = saveTasks([c.storage EXCEPT !.tasks = push(@, newTask)], t2)
             /\ now' = t2
             /\ issued' = issued \cup {id}
             /\ Returns("create_task", c.args, Text("created", formatTask(newTask)))
    /\ inflight' = inflight \ {c}
    /\ unreadable' = FALSE
    /\ UNCHANGED <<STORAGE_TYPE, table>>

NextAsync ==
    \/ \E args \in CreateInputs : beginCreate(args)
    \/ \E c \in inflight : endCreate(c)

SpecAsync == Init /\ [][NextAsync]_vars

\* C16: calls are handled one after the other, so once the create calls that
\* were accepted have all returned, every task they created is in the persisted
\* collection.
C16_CreatesSerialized ==
    inflight = {} => issued \subseteq IdsOf(Tasks)

====
